---------------------------- MODULE Spec2Model ----------------------------
(***************************************************************************)
(* Exercise selection with spaced-repetition exclusion and the submission  *)
(* grader of the language-learning backend (app/services/exercise.py,      *)
(* app/crud/exercise.py, app/crud/user_exercise_history.py).               *)
(*                                                                         *)
(* Strings are sequences of one-character strings.  Time is counted in     *)
(* hours.  The exercises table is read-only to these operations; its rows  *)
(* are inserted outside this code base (no endpoint creates exercises), so *)
(* the only guarantees on a row are the table's own column constraints.    *)
(***************************************************************************)
EXTENDS Integers, Sequences, FiniteSets, TLC

VARIABLES now, history, resp, stored, variant, normalized,
          calls, users, user_level_languages, user_level_languages_id_seq

\* the clock, the user_exercise_history table, the request being served
req_vars == <<now, history, resp>>

\* a stored answer, a way of typing it, and the last normalized string
norm_vars == <<stored, variant, normalized>>

\* the submissions being served side by side, each in a session of its own
conc_vars == <<calls>>

\* the users and user_level_languages tables, and the sequence of the
\* latter's primary key
lang_vars == <<users, user_level_languages, user_level_languages_id_seq>>

vars == <<now, history, resp, stored, variant, normalized,
          calls, users, user_level_languages, user_level_languages_id_seq>>

(***************************************************************************)
(* Bounds of the model.                                                    *)
(***************************************************************************)
MaxHistory == 2

\* Longest stored answer the normalization is tried on, and longest variant
\* of it.
MaxLen == 3

MaxVariantLen == 4

\* Instants the clock visits: the start, the ends of the two exclusion
\* windows, and one hour past the longer one.
ClockInstants == {0, 72, 336, 337}

(***************************************************************************)
(* Characters and strings.                                                 *)
(***************************************************************************)
Whitespace == {" ", "\t"}

Punctuation == {"!", "."}

ToLower(c) == CASE c = "A" -> "a" [] c = "B" -> "b" [] OTHER -> c

ToUpper(c) == CASE c = "a" -> "A" [] c = "b" -> "B" [] OTHER -> c

LowerStr(s) == [i \in 1..Len(s) |-> ToLower(s[i])]

RECURSIVE LStrip(_, _)
LStrip(s, chars) ==
    IF s = <<>> THEN s
    ELSE IF Head(s) \in chars THEN LStrip(Tail(s), chars) ELSE s

RECURSIVE RStrip(_, _)
RStrip(s, chars) ==
    IF s = <<>> THEN s
    ELSE IF s[Len(s)] \in chars THEN RStrip(SubSeq(s, 1, Len(s) - 1), chars)
         ELSE s

\* str.strip(): leading and trailing whitespace removed
Strip(s) == RStrip(LStrip(s, Whitespace), Whitespace)

\* re.sub(r'\s+', ' ', text): every maximal whitespace run becomes one space
RECURSIVE CollapseWhitespace(_)
CollapseWhitespace(s) ==
    IF s = <<>> THEN s
    ELSE IF Head(s) \in Whitespace
         THEN <<" ">> \o CollapseWhitespace(LStrip(Tail(s), Whitespace))
         ELSE <<Head(s)>> \o CollapseWhitespace(Tail(s))

\* re.sub(r'([<punctuation>])\1+', r'\1', text): a run of one and the same
\* punctuation character becomes a single occurrence of it
RECURSIVE CollapsePunctuation(_)
CollapsePunctuation(s) ==
    IF Len(s) < 2 THEN s
    ELSE IF Head(s) \in Punctuation /\ s[2] = Head(s)
         THEN CollapsePunctuation(Tail(s))
         ELSE <<Head(s)>> \o CollapsePunctuation(Tail(s))

normalize_answer(text) ==
    LET t1 == LowerStr(Strip(text))
        t2 == RStrip(t1, Punctuation)
        t3 == CollapseWhitespace(t2)
    IN  CollapsePunctuation(t3)

\* normalize_topic raises ValueError when the stripped topic is empty
topic_is_blank(topic) == Strip(topic) = <<>>

normalize_topic(topic) ==
    LET topic_strip == Strip(topic)
    IN  <<ToUpper(Head(topic_strip))>> \o LowerStr(Tail(topic_strip))

(***************************************************************************)
(* Enumerations.                                                           *)
(***************************************************************************)
CORRECT == "correct"

INCORRECT == "incorrect"

SKIP == "skip"

ExerciseStatusEnum == {CORRECT, INCORRECT, SKIP}

\* ExerciseStatusEnum.exclude_at_hours
EXCLUDE_AT == [correct |-> 336, skip |-> 72, incorrect |-> 0]

SENTENCE_TRANSLATION == "sentence_translation"

MULTIPLE_CHOICE == "multiple_choice"

FILL_BLANK == "fill_blank"

\* absent optional values
None == "None"

\* NULL in the user_answer column (distinct from every string)
Null == <<"NULL">>

(***************************************************************************)
(* Users (supplied by the auth dependency) and the exercises table.        *)
(***************************************************************************)
UserIds == {1, 2}

Users ==
    [u \in UserIds |->
        [id |-> u,
         native_language |-> "uk",
         active_learning_language |->
            [language |-> "en", level |-> IF u = 1 THEN "A1" ELSE "A2"]]]

TopicAb == <<"A", "b">>

TopicB == <<"B">>

TopicA == <<"A">>

Ex(id, topic, level, type, qlang, alang, tlang, answer, active) ==
    [id |-> id, topic |-> topic, difficult_level |-> level, type |-> type,
     question_language |-> qlang, answer_language |-> alang,
     question_translation_language |-> tlang,
     correct_answer |-> answer, is_active |-> active]

\* Rows of the exercises table.  Row 6 has an empty correct_answer: the
\* column is Text NOT NULL without a length check.
Exercises ==
    { Ex(1, TopicAb, "A1", SENTENCE_TRANSLATION, "uk", "en", None, <<"a">>, TRUE),
      Ex(2, TopicAb, "A1", MULTIPLE_CHOICE, "en", "en", "uk", <<"a">>, TRUE),
      Ex(3, TopicAb, "A1", FILL_BLANK, "en", "en", "uk", <<"a">>, FALSE),
      Ex(4, TopicAb, "A1", MULTIPLE_CHOICE, "uk", "uk", "en", <<"a">>, TRUE),
      Ex(5, TopicAb, "A1", SENTENCE_TRANSLATION, "en", "de", None, <<"a">>, TRUE),
      Ex(6, TopicB, "A1", SENTENCE_TRANSLATION, "uk", "en", None, <<>>, TRUE),
      Ex(7, TopicAb, "A2", SENTENCE_TRANSLATION, "en", "uk", None, <<"b">>, TRUE),
      Ex(8, TopicAb, "A2", FILL_BLANK, "en", "en", "uk", <<"a", ".">>, TRUE),
      Ex(9, TopicA, "A1", MULTIPLE_CHOICE, "en", "en", "uk", <<"a">>, TRUE) }

ExerciseIds == {e.id : e \in Exercises}

\* Variant: an id that is in no row resolves to the first row of the table.
get_exercise_by_id_first(exercise_id) ==
    {e \in Exercises :
        \/ e.id = exercise_id
        \/ (exercise_id \notin ExerciseIds /\ e.id = 1)}

\* crud.exercise.get_exercise_by_id: the row, or the empty set for None
get_exercise_by_id(exercise_id) == {e \in Exercises : e.id = exercise_id}

(***************************************************************************)
(* Inputs of the requests.                                                 *)
(***************************************************************************)
TopicInputs == { <<" ", "a", "B">>, <<"b">>, <<"a">>, <<" ">> }

DifficultyInputs == {None, "A1"}

\* exclude_id: 0 stands for an omitted parameter too (the code tests
\* `if exclude_id`, which None and 0 both fail)
ExcludeInputs == {0, 1, 6}

\* exercise_id: two rows of the table and an id that is in no row
SubmitIds == {1, 6, 99}

AnswerInputs == { <<>>, <<" ">>, <<"!", "!">>, <<"A", "!">>, <<"b">> }

TimeInputs == {-1, 0, 7}

\* period: Literal['7d', '30d', '3m', '1y', 'all']
PeriodInputs == {"7d", "30d", "3m", "1y", "all"}

\* the periods whose window the clock of ClockInstants can leave
RecentPeriods == {"7d", "all"}

\* language filter of the statistics
LanguageInputs == {None, "uk"}

\* history_id: the ids the table can hold and one it cannot
HistoryIdInputs == 1..(MaxHistory + 1)

\* <<exercise_id, user_answer, time_spent_seconds>> of the submissions:
\* every answer on every id with a positive time, and the times that are
\* not positive on an existing and on a missing id
SubmitRequests ==
    (SubmitIds \X AnswerInputs \X {t \in TimeInputs : t > 0})
        \cup ({1, 99} \X {<<>>, <<"b">>} \X {t \in TimeInputs : t <= 0})

(***************************************************************************)
(* Responses.                                                              *)
(***************************************************************************)
NoResp ==
    [op |-> "none", kind |-> "none", user_id |-> 0,
     topic |-> <<>>, difficult_level |-> None, exclude_id |-> 0,
     exercise_id |-> 0, user_answer |-> <<>>, time_spent_seconds |-> 0,
     status |-> None, is_correct |-> FALSE, suggestions |-> <<>>,
     language |-> None, period |-> None, history_id |-> 0,
     result |-> None]

Suggestions ==
    << "Try changing difficulty level",
       "Try different topic",
       "Come back later (some exercises may be on timeout)" >>

(***************************************************************************)
(* crud.exercise.get_exercise                                              *)
(***************************************************************************)
HistoryRows == {history[i] : i \in 1..Len(history)}

\* Variant: only the user's latest attempt on an exercise is looked at.
timeout_subquery_latest(user_id) ==
    { r.exercise_id : r \in
        { r \in HistoryRows :
            /\ r.user_id = user_id
            /\ \A q \in HistoryRows :
                  (q.user_id = user_id /\ q.exercise_id = r.exercise_id)
                     => q.id <= r.id
            /\ \/ /\ r.status = CORRECT
                  /\ r.completed_at >= now - EXCLUDE_AT[CORRECT]
               \/ /\ r.status = SKIP
                  /\ r.completed_at >= now - EXCLUDE_AT[SKIP] } }

\* Variant: only correct attempts start a timeout.
timeout_subquery_correct_only(user_id) ==
    { r.exercise_id : r \in
        { r \in HistoryRows :
            /\ r.user_id = user_id
            /\ r.status = CORRECT
            /\ r.completed_at >= now - EXCLUDE_AT[CORRECT] } }

\* Variant: the attempts of every user count, not only the caller's.
timeout_subquery_shared(user_id) ==
    { r.exercise_id : r \in
        { r \in HistoryRows :
            \/ /\ r.status = CORRECT
               /\ r.completed_at >= now - EXCLUDE_AT[CORRECT]
            \/ /\ r.status = SKIP
               /\ r.completed_at >= now - EXCLUDE_AT[SKIP] } }

\* Variant: the window closes at the boundary instant itself.
timeout_subquery_strict(user_id) ==
    { r.exercise_id : r \in
        { r \in HistoryRows :
            /\ r.user_id = user_id
            /\ \/ /\ r.status = CORRECT
                  /\ r.completed_at > now - EXCLUDE_AT[CORRECT]
               \/ /\ r.status = SKIP
                  /\ r.completed_at > now - EXCLUDE_AT[SKIP] } }

\* ids of exercises with an active timeout for the user
timeout_subquery(user_id) ==
    { h.exercise_id : h \in
        { r \in HistoryRows :
            /\ r.user_id = user_id
            /\ \/ /\ r.status = CORRECT
                  /\ r.completed_at >= now - EXCLUDE_AT[CORRECT]
               \/ /\ r.status = SKIP
                  /\ r.completed_at >= now - EXCLUDE_AT[SKIP] } }

\* Variant: fill_blank / multiple_choice accepted in both directions.
language_match_either(e, native_lang, active_lang) ==
    \/ /\ e.type = SENTENCE_TRANSLATION
       /\ \/ /\ e.question_language = native_lang
             /\ e.answer_language = active_lang
          \/ /\ e.question_language = active_lang
             /\ e.answer_language = native_lang
    \/ /\ e.type \in {FILL_BLANK, MULTIPLE_CHOICE}
       /\ \/ /\ e.question_language = active_lang
             /\ e.question_translation_language = native_lang
          \/ /\ e.question_language = native_lang
             /\ e.question_translation_language = active_lang

language_match(e, native_lang, active_lang) ==
    \/ /\ e.type = SENTENCE_TRANSLATION
       /\ \/ /\ e.question_language = native_lang
             /\ e.answer_language = active_lang
          \/ /\ e.question_language = active_lang
             /\ e.answer_language = native_lang
    \/ /\ e.type \in {FILL_BLANK, MULTIPLE_CHOICE}
       /\ e.question_language = active_lang
       /\ e.question_translation_language = native_lang

\* Variant: exclude_id is not applied.
exclude_filter_off(e, exclude_id) == TRUE

exclude_filter(e, exclude_id) ==
    IF exclude_id # 0 THEN e.id # exclude_id ELSE TRUE

\* Variant: inactive exercises are not filtered out.
get_exercise_inactive(user_id, topic, difficult_level, native_lang, active_lang, exclude_id) ==
    { e \in Exercises :
        /\ e.topic = topic
        /\ e.difficult_level = difficult_level
        /\ language_match(e, native_lang, active_lang)
        /\ e.id \notin timeout_subquery(user_id)
        /\ exclude_filter(e, exclude_id) }

\* Variant: the timeout subquery is not applied.
get_exercise_no_timeout(user_id, topic, difficult_level, native_lang, active_lang, exclude_id) ==
    { e \in Exercises :
        /\ e.is_active = TRUE
        /\ e.topic = topic
        /\ e.difficult_level = difficult_level
        /\ language_match(e, native_lang, active_lang)
        /\ exclude_filter(e, exclude_id) }

\* the rows the query can return (one of them, in random order, or None)
get_exercise(user_id, topic, difficult_level, native_lang, active_lang, exclude_id) ==
    { e \in Exercises :
        /\ e.is_active = TRUE
        /\ e.topic = topic
        /\ e.difficult_level = difficult_level
        /\ language_match(e, native_lang, active_lang)
        /\ e.id \notin timeout_subquery(user_id)
        /\ exclude_filter(e, exclude_id) }

(***************************************************************************)
(* The state machine.                                                      *)
(***************************************************************************)
Init ==
    /\ now = 0
    /\ history = <<>>
    /\ resp = NoResp
    /\ stored = <<>>
    /\ variant = <<>>
    /\ normalized = Null
    /\ calls = <<>>
    /\ users = <<>>
    /\ user_level_languages = {}
    /\ user_level_languages_id_seq = 0

Idle == resp.op = "none"

\* The database clock advances.
Tick ==
    /\ Idle
    /\ \E t \in ClockInstants : t > now /\ now' = t
    /\ UNCHANGED <<history, resp>>
    /\ UNCHANGED <<norm_vars, conc_vars, lang_vars>>

\* The endpoint hands the response to the caller.
Return ==
    /\ ~Idle
    /\ resp' = NoResp
    /\ UNCHANGED <<now, history>>
    /\ UNCHANGED <<norm_vars, conc_vars, lang_vars>>

default_difficulty(user, difficult_level) ==
    IF difficult_level = None
    THEN user.active_learning_language.level
    ELSE difficult_level

\* services.exercise.get_exercise_service
GetNextExercise(u, topic_in, level_in, exclude_id) ==
    LET user == Users[u]
        req  == [NoResp EXCEPT !.op = "select", !.user_id = u,
                               !.topic = topic_in,
                               !.difficult_level = level_in,
                               !.exclude_id = exclude_id]
    IN
    /\ Idle
    /\ IF topic_is_blank(topic_in)
       THEN resp' = [req EXCEPT !.kind = "ValueError"]
       ELSE LET topic == normalize_topic(topic_in)
                difficult_level == default_difficulty(user, level_in)
                found == get_exercise(user.id, topic, difficult_level,
                                      user.native_language,
                                      user.active_learning_language.language,
                                      exclude_id)
            IN  IF found = {}
                THEN resp' = [req EXCEPT !.kind = "NotFound",
                                         !.suggestions = Suggestions]
                ELSE \E e \in found :
                        resp' = [req EXCEPT !.kind = "ok",
                                            !.exercise_id = e.id]
    /\ UNCHANGED <<now, history>>
    /\ UNCHANGED <<norm_vars, conc_vars, lang_vars>>

\* schemas.exercise.ExerciseUserAnswer: time_spent_seconds = Field(gt=0)
ExerciseUserAnswer_valid(time_spent_seconds) == time_spent_seconds > 0

\* Variant: the answers are compared as submitted, without normalizing.
answer_status_raw(user_answer, correct_answer) ==
    IF user_answer = <<>> THEN SKIP
    ELSE IF user_answer = correct_answer THEN CORRECT ELSE INCORRECT

\* services.exercise.check_and_save_submission: status from the two
\* normalized answers
answer_status(user_answer, correct_answer) ==
    LET user_answer_normalized == normalize_answer(user_answer)
        correct_answer_normalized == normalize_answer(correct_answer)
    IN  IF user_answer_normalized = <<>> THEN SKIP
        ELSE IF user_answer_normalized = correct_answer_normalized
             THEN CORRECT
             ELSE INCORRECT

\* user_answer=data.user_answer if user_answer_normalized else None
history_answer(user_answer) ==
    IF normalize_answer(user_answer) # <<>> THEN user_answer ELSE Null

\* utils.validators.validate_exercise_status: TRUE when it does not raise
validate_exercise_status(status, user_answer) ==
    LET answer == IF user_answer # Null /\ user_answer # <<>>
                  THEN Strip(user_answer) ELSE <<>>
    IN  /\ ~(answer # <<>> /\ status = SKIP)
        /\ ~(answer = <<>> /\ status \in {CORRECT, INCORRECT})

\* schemas.user_exercise_history.ExerciseHistoryCreate: field and model
\* validators
ExerciseHistoryCreate_valid(data) ==
    /\ data.time_spent_seconds >= 0
    /\ validate_exercise_status(data.status, data.user_answer)

\* models.UserExerciseHistory.__table_args__: the two CHECK constraints
check_constraints(row) ==
    /\ row.time_spent_seconds >= 0
    /\ \/ row.status = SKIP /\ row.user_answer = Null
       \/ row.status \in {INCORRECT, CORRECT} /\ row.user_answer # Null

Last(rows) == rows[Len(rows)]

\* Variant: an upsert; the earlier rows of the user for the exercise are
\* replaced by the new row.
create_user_history_upsert(data) ==
    LET Others(h) ==
            ~(h.user_id = data.user_id /\ h.exercise_id = data.exercise_id)
        kept == SelectSeq(history, Others)
    IN  Append(kept,
               [id |-> Len(kept) + 1,
                user_id |-> data.user_id,
                exercise_id |-> data.exercise_id,
                user_answer |-> data.user_answer,
                status |-> data.status,
                time_spent_seconds |-> data.time_spent_seconds,
                completed_at |-> now])

\* crud.user_exercise_history.create_user_history: the table after the
\* insert is committed; completed_at is the server default now()
create_user_history(data) ==
    Append(history,
           [id |-> Len(history) + 1,
            user_id |-> data.user_id,
            exercise_id |-> data.exercise_id,
            user_answer |-> data.user_answer,
            status |-> data.status,
            time_spent_seconds |-> data.time_spent_seconds,
            completed_at |-> now])

\* schemas.exercise.ExerciseCorrectAnswer: the field constraints the
\* response must satisfy to be constructed
ExerciseCorrectAnswer_valid(exercise) ==
    /\ Len(exercise.topic) >= 1
    /\ Len(exercise.topic) <= 100
    /\ Len(exercise.correct_answer) >= 1

\* Variant: the history row is written straight from the request, the raw
\* answer included, without the schema and constraint checks.
SubmitAnswer_unvalidated(u, exercise_id, user_answer, time_spent_seconds) ==
    LET req == [NoResp EXCEPT !.op = "submit", !.user_id = u,
                              !.exercise_id = exercise_id,
                              !.user_answer = user_answer,
                              !.time_spent_seconds = time_spent_seconds]
        found == get_exercise_by_id(exercise_id)
    IN
    /\ Idle
    /\ Len(history) < MaxHistory
    /\ IF ~ExerciseUserAnswer_valid(time_spent_seconds)
       THEN /\ resp' = [req EXCEPT !.kind = "RequestValidationError"]
            /\ UNCHANGED history
       ELSE IF found = {}
       THEN /\ resp' = [req EXCEPT !.kind = "NotFound"]
            /\ UNCHANGED history
       ELSE LET exercise == CHOOSE e \in found : TRUE
                status == answer_status(user_answer, exercise.correct_answer)
            IN  /\ history' = create_user_history(
                        [user_id |-> u, exercise_id |-> exercise_id,
                         user_answer |-> user_answer, status |-> status,
                         time_spent_seconds |-> time_spent_seconds])
                /\ IF ExerciseCorrectAnswer_valid(exercise)
                   THEN resp' = [req EXCEPT !.kind = "ok",
                                            !.status = status,
                                            !.is_correct = (status = CORRECT)]
                   ELSE resp' = [req EXCEPT !.kind = "ValidationError"]
    /\ UNCHANGED now
    /\ UNCHANGED <<norm_vars, conc_vars, lang_vars>>

\* POST /exercises/{exercise_id}/submit: request validation, then
\* services.exercise.check_and_save_submission
SubmitAnswer(u, exercise_id, user_answer, time_spent_seconds) ==
    LET req == [NoResp EXCEPT !.op = "submit", !.user_id = u,
                              !.exercise_id = exercise_id,
                              !.user_answer = user_answer,
                              !.time_spent_seconds = time_spent_seconds]
        found == get_exercise_by_id(exercise_id)
    IN
    /\ Idle
    /\ Len(history) < MaxHistory
    /\ IF ~ExerciseUserAnswer_valid(time_spent_seconds)
       THEN /\ resp' = [req EXCEPT !.kind = "RequestValidationError"]
            /\ UNCHANGED history
       ELSE IF found = {}
       THEN /\ resp' = [req EXCEPT !.kind = "NotFound"]
            /\ UNCHANGED history
       ELSE LET exercise == CHOOSE e \in found : TRUE
                status == answer_status(user_answer, exercise.correct_answer)
                is_correct == (status = CORRECT)
                new_history ==
                    [user_id |-> u, exercise_id |-> exercise_id,
                     user_answer |-> history_answer(user_answer),
                     status |-> status,
                     time_spent_seconds |-> time_spent_seconds]
            IN  IF ~ExerciseHistoryCreate_valid(new_history)
                THEN /\ resp' = [req EXCEPT !.kind = "ValidationError"]
                     /\ UNCHANGED history
                ELSE IF ~check_constraints(Last(create_user_history(new_history)))
                THEN /\ resp' = [req EXCEPT !.kind = "IntegrityError"]
                     /\ UNCHANGED history
                ELSE /\ history' = create_user_history(new_history)
                     /\ IF ExerciseCorrectAnswer_valid(exercise)
                        THEN resp' = [req EXCEPT !.kind = "ok",
                                                 !.status = status,
                                                 !.is_correct = is_correct]
                        ELSE resp' = [req EXCEPT !.kind = "ValidationError"]
    /\ UNCHANGED now
    /\ UNCHANGED <<norm_vars, conc_vars, lang_vars>>

(***************************************************************************)
(* Statistics: utils.helpers.parse_date_range,                             *)
(* crud.user_exercise_history.get_exercise_history_by_user and             *)
(* services.statistics.  A date is the number of its day, completed_at     *)
(* \div 24.  A percentage or a number of hours is kept as the exact        *)
(* fraction [num, den] until a response schema rounds it to tenths.        *)
(***************************************************************************)
LanguageLevelEnum == <<"A1", "A2", "B1", "B2", "C1", "C2">>

date(t) == t \div 24

period_days == [p \in {"7d", "30d", "3m", "1y"} |->
                  CASE p = "7d" -> 7 [] p = "30d" -> 30
                    [] p = "3m" -> 90 [] p = "1y" -> 365]

\* an optional number: absent, or present with a value
Nothing == <<>>

Some(x) == <<x>>

\* <<start_utc, end_utc>> for a period: the start is `days` days before
\* now, moved back to 00:00 of its day
parse_date_range(period) ==
    IF period = "all" THEN <<Nothing, Nothing>>
    ELSE <<Some(date(now - 24 * period_days[period]) * 24), Some(now)>>

\* limit=10000 of the two statistics services
HistoryLimit == 10000

Reverse(s) == [i \in 1..Len(s) |-> s[Len(s) + 1 - i]]

Min(a, b) == IF a <= b THEN a ELSE b

\* stmt.offset(offset).limit(limit)
Page(rows, offset, limit) ==
    SubSeq(rows, offset + 1, Min(offset + limit, Len(rows)))

\* UserExerciseHistory.exercise: the joined exercises row
exercise_of(h) == CHOOSE e \in Exercises : e.id = h.exercise_id

\* The rows of the table are in insertion order, which is the order of
\* completed_at because the clock never goes back, so ascending order is
\* the table's and descending order its reverse.  Rows of one instant come
\* in either order from the database; no result below depends on their
\* order unless the limit cuts between them.
get_exercise_history_by_user(user_id, language, difficulty_level, status, date_from, date_to, order, limit, offset) ==
    LET Keep(h) ==
            /\ h.exercise_id \in ExerciseIds
            /\ h.user_id = user_id
            /\ (date_from # Nothing => h.completed_at >= date_from[1])
            /\ (date_to # Nothing => h.completed_at <= date_to[1])
            /\ (difficulty_level # None =>
                    exercise_of(h).difficult_level = difficulty_level)
            /\ (language # None =>
                    \/ exercise_of(h).question_language = language
                    \/ exercise_of(h).answer_language = language)
            /\ (status # None => h.status = status)
    IN  IF order = "desc"
        THEN Page(Reverse(SelectSeq(history, Keep)), offset, limit)
        ELSE Page(SelectSeq(history, Keep), offset, limit)

\* NamedTuple AccuracyStats: accuracy_percent is the fraction
\* correct / total_answered * 100, or 0.0
AccuracyStats(total_answered, correct) ==
    [total_answered |-> total_answered,
     accuracy_percent |->
        IF total_answered > 0
        THEN [num |-> correct * 100, den |-> total_answered]
        ELSE [num |-> 0, den |-> 1]]

_calculate_accuracy_stats(rows, difficulty_level) ==
    LET Answered(h) ==
            /\ difficulty_level # None =>
                  exercise_of(h).difficult_level = difficulty_level
            /\ h.status # SKIP
        Correct(h) ==
            /\ difficulty_level # None =>
                  exercise_of(h).difficult_level = difficulty_level
            /\ h.status = CORRECT
    IN  AccuracyStats(
            Cardinality({i \in 1..Len(rows) : Answered(rows[i])}),
            Cardinality({i \in 1..Len(rows) : Correct(rows[i])}))

RECURSIVE SortDesc(_)
SortDesc(S) ==
    IF S = {} THEN <<>>
    ELSE LET m == CHOOSE x \in S : \A y \in S : y <= x
         IN  <<m>> \o SortDesc(S \ {m})

\* the for-loops of _calculate_current_streak: the number of leading
\* entries of days that equal first, first - 1, first - 2, ...
RECURSIVE streak_walk(_, _)
streak_walk(days, first) ==
    IF days = <<>> THEN 0
    ELSE IF Head(days) = first
         THEN 1 + streak_walk(Tail(days), first - 1)
         ELSE 0

\* Variant: without the grace day the count always starts at today.
streak_result_nograce(days, today) ==
    IF days = <<>>
    THEN [days |-> 0, is_today_completed |-> FALSE]
    ELSE [days |-> streak_walk(days, today),
          is_today_completed |-> (days[1] = today)]

\* Variant: every date of the history counts, whatever the gaps.
streak_result_nogap(days, today) ==
    IF days = <<>>
    THEN [days |-> 0, is_today_completed |-> FALSE]
    ELSE IF days[1] = today
    THEN [days |-> Len(days), is_today_completed |-> TRUE]
    ELSE [days |-> streak_walk(days, today - 1),
          is_today_completed |-> FALSE]

\* _calculate_current_streak from `if not days` on; days are the unique
\* dates, sorted descending
streak_result(days, today) ==
    IF days = <<>>
    THEN [days |-> 0, is_today_completed |-> FALSE]
    ELSE IF days[1] = today
    THEN [days |-> streak_walk(days, today),
          is_today_completed |-> TRUE]
    ELSE [days |-> streak_walk(days, today - 1),
          is_today_completed |-> FALSE]

_calculate_current_streak(rows) ==
    streak_result(
        SortDesc({date(rows[i].completed_at) : i \in 1..Len(rows)}),
        date(now))

RECURSIVE SumOver(_, _)
SumOver(values, rows) ==
    IF values = {} THEN 0
    ELSE LET v == CHOOSE x \in values : TRUE
             Spent(h) == h.time_spent_seconds = v
         IN  v * Cardinality({i \in 1..Len(rows) : Spent(rows[i])})
                + SumOver(values \ {v}, rows)

\* sum(h.time_spent_seconds for h in history)
SumSeconds(rows) ==
    SumOver({rows[i].time_spent_seconds : i \in 1..Len(rows)}, rows)

\* round(v, 1) of the response schemas, in tenths: the nearest tenth, the
\* even one when v is half way.  (The code rounds the binary float, which
\* can differ from this on an exact half; with fewer than 16 answered
\* attempts, or none or all of them correct, no percentage is half way.)
round_fields(v) ==
    LET q == (10 * v.num) \div v.den
        r == (10 * v.num) % v.den
    IN  IF 2 * r > v.den \/ (2 * r = v.den /\ q % 2 = 1) THEN q + 1 ELSE q

\* schemas.statistics.OverviewResponse, accuracy and hours in tenths
OverviewResponse(total_exercises, accuracy_stats, streak_result_, total_seconds) ==
    [total_exercises |-> total_exercises,
     total_answered |-> accuracy_stats.total_answered,
     accuracy |-> round_fields(accuracy_stats.accuracy_percent),
     current_streak_days |-> streak_result_.days,
     is_today_completed |-> streak_result_.is_today_completed,
     total_study_hours |-> round_fields([num |-> total_seconds, den |-> 3600])]

_calculate_overview(rows) ==
    IF rows = <<>>
    THEN [total_exercises |-> 0, total_answered |-> 0, accuracy |-> 0,
          current_streak_days |-> 0, is_today_completed |-> FALSE,
          total_study_hours |-> 0]
    ELSE OverviewResponse(Len(rows),
                          _calculate_accuracy_stats(rows, None),
                          _calculate_current_streak(rows),
                          SumSeconds(rows))

\* schemas.statistics.DifficultyStats of one level, as
\* _calculate_by_difficulty fills it
DifficultyStats(level, accuracy_stats) ==
    LET mastered ==
            /\ accuracy_stats.accuracy_percent.num
                  >= 80 * accuracy_stats.accuracy_percent.den
            /\ accuracy_stats.total_answered >= 100
    IN  [level |-> level,
         accuracy |-> round_fields(accuracy_stats.accuracy_percent),
         total_answered |-> accuracy_stats.total_answered,
         mastered |-> mastered,
         in_progress |-> (accuracy_stats.total_answered > 10 /\ ~mastered)]

\* the dict by_level, as the list of its values in the order of the enum
_calculate_by_difficulty(rows) ==
    [k \in 1..Len(LanguageLevelEnum) |->
        DifficultyStats(LanguageLevelEnum[k],
                        _calculate_accuracy_stats(rows, LanguageLevelEnum[k]))]

\* index of the first row on a topic
RECURSIVE first_index(_, _, _)
first_index(rows, topic, i) ==
    IF exercise_of(rows[i]).topic = topic THEN i
    ELSE first_index(rows, topic, i + 1)

\* the keys of the topics dict in insertion order: the topics of the rows
\* in order of first appearance
RECURSIVE topic_keys(_, _)
topic_keys(rows, topics) ==
    IF topics = {} THEN <<>>
    ELSE LET t == CHOOSE x \in topics :
                    \A y \in topics :
                        first_index(rows, x, 1) <= first_index(rows, y, 1)
         IN  <<t>> \o topic_keys(rows, topics \ {t})

\* topics[topic]: total and correct of the answered rows; the key
\* 'accuracy' is set only when total > 0
TopicData(topic, total, correct) ==
    [name |-> topic, total |-> total, correct |-> correct,
     has_accuracy |-> total > 0,
     accuracy |-> IF total > 0
                  THEN [num |-> correct * 100, den |-> total]
                  ELSE [num |-> 0, den |-> 1]]

topic_data(rows, topic) ==
    LET Answered(h) == exercise_of(h).topic = topic /\ h.status # SKIP
        Correct(h) == exercise_of(h).topic = topic /\ h.status = CORRECT
    IN  TopicData(
            topic,
            Cardinality({i \in 1..Len(rows) : Answered(rows[i])}),
            Cardinality({i \in 1..Len(rows) : Correct(rows[i])}))

\* the topics dict as the list of its values in insertion order
topic_rows(rows, keys) == [k \in 1..Len(keys) |-> topic_data(rows, keys[k])]

\* a / b < c / d for fractions with positive denominators
Less(x, y) == x.num * y.den < y.num * x.den

\* sorted(..., key=accuracy, reverse=best_first): a stable insertion sort
RECURSIVE insert_sorted(_, _, _)
insert_sorted(sorted, item, best_first) ==
    IF sorted = <<>> THEN <<item>>
    ELSE IF (best_first /\ Less(Head(sorted).accuracy, item.accuracy))
             \/ (~best_first /\ Less(item.accuracy, Head(sorted).accuracy))
         THEN <<item>> \o sorted
         ELSE <<Head(sorted)>> \o insert_sorted(Tail(sorted), item, best_first)

RECURSIVE sort_topics(_, _)
sort_topics(items, best_first) ==
    IF items = <<>> THEN <<>>
    ELSE insert_sorted(
            sort_topics(SubSeq(items, 1, Len(items) - 1), best_first),
            items[Len(items)], best_first)

topic_status(accuracy) ==
    IF accuracy.num >= 85 * accuracy.den THEN "mastered"
    ELSE IF accuracy.num >= 70 * accuracy.den THEN "good"
    ELSE IF accuracy.num >= 50 * accuracy.den THEN "learning"
    ELSE "needs_practice"

\* the result list: a TopicStats for each selected topic
TopicStatsList(selected) ==
    [k \in 1..Len(selected) |->
        [name |-> selected[k].name,
         accuracy |-> round_fields(selected[k].accuracy),
         total_answered |-> selected[k].total,
         status |-> topic_status(selected[k].accuracy)]]

\* the sort, the cut to the limit and the result list; reading the key
\* 'accuracy' of a topic that has none raises KeyError
top_topics_sorted(filtered, limit, best_first) ==
    IF \E k \in 1..Len(filtered) : ~filtered[k].has_accuracy
    THEN [raised |-> TRUE, topics |-> <<>>]
    ELSE [raised |-> FALSE,
          topics |-> TopicStatsList(
                        Page(sort_topics(filtered, best_first), 0, limit))]

\* the filter for weak topics: data['total'] >= min_total and
\* (max_accuracy is None or data['accuracy'] <= max_accuracy), the right
\* operand read only when the left one holds
top_topics_filtered(topics, limit, best_first, min_total, max_accuracy) ==
    LET Passes(t) ==
            /\ t.total >= min_total
            /\ (max_accuracy = Nothing
                  \/ t.accuracy.num <= max_accuracy[1] * t.accuracy.den)
        Raises(t) ==
            t.total >= min_total /\ max_accuracy # Nothing /\ ~t.has_accuracy
    IN  IF min_total > 0 \/ max_accuracy # Nothing
        THEN IF \E k \in 1..Len(topics) : Raises(topics[k])
             THEN [raised |-> TRUE, topics |-> <<>>]
             ELSE top_topics_sorted(SelectSeq(topics, Passes), limit, best_first)
        ELSE top_topics_sorted(topics, limit, best_first)

\* [raised, topics]: raised is TRUE when the code raises KeyError;
\* max_accuracy is absent or a whole percentage
_calculate_top_topics(rows, limit, best_first, min_total, max_accuracy) ==
    IF rows = <<>> THEN [raised |-> FALSE, topics |-> <<>>]
    ELSE top_topics_filtered(
            topic_rows(rows,
                topic_keys(rows,
                    {exercise_of(rows[i]).topic : i \in 1..Len(rows)})),
            limit, best_first, min_total, max_accuracy)

\* schemas.statistics.PerformanceResponse: the fields without a default
PerformanceResponse_required ==
    {"by_difficulty", "top_topics", "weak_topics", "suggested_level"}

\* the keyword arguments _calculate_performance_statistics passes
PerformanceResponse_supplied == {"by_difficulty", "top_topics", "weak_topics"}

\* PerformanceResponse(by_difficulty=..., top_topics=..., weak_topics=...)
PerformanceResponse(by_difficulty, top_topics, weak_topics) ==
    IF top_topics.raised \/ weak_topics.raised
    THEN [kind |-> "KeyError", result |-> None]
    ELSE IF ~(PerformanceResponse_required
                  \subseteq PerformanceResponse_supplied)
    THEN [kind |-> "ValidationError", result |-> None]
    ELSE [kind |-> "ok",
          result |-> [by_difficulty |-> by_difficulty,
                      top_topics |-> top_topics.topics,
                      weak_topics |-> weak_topics.topics]]

\* [kind, result] of _calculate_performance_statistics
_calculate_performance_statistics(rows) ==
    PerformanceResponse(
        _calculate_by_difficulty(rows),
        _calculate_top_topics(rows, 5, TRUE, 0, Nothing),
        _calculate_top_topics(rows, 5, FALSE, 20, Some(60)))

\* the history both statistics services fetch for a date range
statistics_history(u, language, range) ==
    get_exercise_history_by_user(u, language, None, None,
                                 range[1], range[2], "desc", HistoryLimit, 0)

\* services.statistics.get_basic_statistics
GetOverview(u, language, period) ==
    /\ Idle
    /\ resp' = [NoResp EXCEPT
                   !.op = "overview", !.kind = "ok", !.user_id = u,
                   !.language = language, !.period = period,
                   !.result = _calculate_overview(
                       statistics_history(u, language,
                                          parse_date_range(period)))]
    /\ UNCHANGED <<now, history>>
    /\ UNCHANGED <<norm_vars, conc_vars, lang_vars>>

performance_resp(u, language, period, outcome) ==
    [NoResp EXCEPT !.op = "performance", !.kind = outcome.kind,
                   !.user_id = u, !.language = language,
                   !.period = period, !.result = outcome.result]

\* services.statistics.get_performance_statistics
GetPerformance(u, language, period) ==
    /\ Idle
    /\ resp' = performance_resp(u, language, period,
                   _calculate_performance_statistics(
                       statistics_history(u, language,
                                          parse_date_range(period))))
    /\ UNCHANGED <<now, history>>
    /\ UNCHANGED <<norm_vars, conc_vars, lang_vars>>

\* crud.exercise.get_all_topics: the distinct topics of the rows whose
\* question and answer languages are the user's pair, in either direction
\* (the code returns them as a list ordered by topic)
get_all_topics(user) ==
    { e.topic : e \in
        { x \in Exercises :
            \/ /\ x.question_language = user.native_language
               /\ x.answer_language = user.active_learning_language.language
            \/ /\ x.question_language = user.active_learning_language.language
               /\ x.answer_language = user.native_language } }

\* GET /exercises/topics
ListTopics(u) ==
    /\ Idle
    /\ resp' = [NoResp EXCEPT !.op = "topics", !.kind = "ok",
                              !.user_id = u,
                              !.result = get_all_topics(Users[u])]
    /\ UNCHANGED <<now, history>>
    /\ UNCHANGED <<norm_vars, conc_vars, lang_vars>>

\* Variant: the query without the user filter (user_id is None).
get_history_with_exercise_by_id_any(user_id, history_id) ==
    {h \in HistoryRows : h.id = history_id /\ h.exercise_id \in ExerciseIds}

\* crud.user_exercise_history.get_history_with_exercise_by_id: the row
\* joined with its exercise, or the empty set for None
get_history_with_exercise_by_id(user_id, history_id) ==
    {h \in HistoryRows :
        /\ h.id = history_id
        /\ h.exercise_id \in ExerciseIds
        /\ h.user_id = user_id}

\* detail of the 404: f'Exercise history record {history_id} not found'
history_not_found(history_id) == [detail_history_id |-> history_id]

\* schemas.user_exercise_history.ExerciseHistoryRead.model_validate
ExerciseHistoryRead(h) ==
    [id |-> h.id, user_answer |-> h.user_answer, status |-> h.status,
     time_spent_seconds |-> h.time_spent_seconds,
     completed_at |-> h.completed_at,
     exercise |-> exercise_of(h)]

\* services.user_exercise_history.get_exercise_history_by_id_service
GetHistoryRecord(u, history_id) ==
    LET req == [NoResp EXCEPT !.op = "history", !.user_id = u,
                              !.history_id = history_id]
        found == get_history_with_exercise_by_id(u, history_id)
    IN
    /\ Idle
    /\ IF found = {}
       THEN resp' = [req EXCEPT !.kind = "NotFound",
                                !.result = history_not_found(history_id)]
       ELSE resp' = [req EXCEPT !.kind = "ok",
                                !.result = ExerciseHistoryRead(
                                               CHOOSE h \in found : TRUE)]
    /\ UNCHANGED <<now, history>>
    /\ UNCHANGED <<norm_vars, conc_vars, lang_vars>>

Next ==
    \/ Tick
    \/ Return
    \/ \E u \in UserIds, t \in TopicInputs, d \in DifficultyInputs,
          x \in ExcludeInputs : GetNextExercise(u, t, d, x)
    \/ \E u \in UserIds, r \in SubmitRequests :
          SubmitAnswer(u, r[1], r[2], r[3])
    \/ \E u \in UserIds : ListTopics(u)
    \/ \E u \in UserIds, i \in HistoryIdInputs : GetHistoryRecord(u, i)
    \/ \E u \in UserIds, p \in RecentPeriods : GetOverview(u, None, p)
    \/ \E u \in UserIds, p \in RecentPeriods : GetPerformance(u, None, p)

Spec == Init /\ [][Next]_vars

(***************************************************************************)
(* utils.normalizers.normalize_answer on its own: a stored answer text, a  *)
(* variant of it as a user may type it, and the function applied to the    *)
(* variant and to its own results.                                         *)
(***************************************************************************)
Letters == {"a", "B"}

Chars == Letters \cup {" "} \cup Punctuation

Strings(n) == UNION { [1..k -> Chars] : k \in 0..n }

SwapCase(c) == IF ToLower(c) = c THEN ToUpper(c) ELSE ToLower(c)

Insert(s, i, c) == SubSeq(s, 1, i) \o <<c>> \o SubSeq(s, i + 1, Len(s))

NormInit ==
    /\ stored \in Strings(MaxLen)
    /\ variant = stored
    /\ normalized = Null
    /\ now = 0
    /\ history = <<>>
    /\ resp = NoResp
    /\ calls = <<>>
    /\ users = <<>>
    /\ user_level_languages = {}
    /\ user_level_languages_id_seq = 0

\* a letter typed in the other case
EditCase ==
    /\ \E i \in 1..Len(variant) :
          /\ variant[i] \in {"a", "A", "b", "B"}
          /\ variant' = [variant EXCEPT ![i] = SwapCase(variant[i])]
    /\ UNCHANGED <<stored, normalized>>
    /\ UNCHANGED <<req_vars, conc_vars, lang_vars>>

\* whitespace typed before or after the answer
EditOuterWhitespace ==
    /\ Len(variant) < MaxVariantLen
    /\ \E c \in Whitespace :
          \/ variant' = <<c>> \o variant
          \/ variant' = Append(variant, c)
    /\ UNCHANGED <<stored, normalized>>
    /\ UNCHANGED <<req_vars, conc_vars, lang_vars>>

\* a punctuation character typed at the end, after the answer or after
\* whitespace that follows it
EditTrailingPunctuation ==
    /\ Len(variant) < MaxVariantLen
    /\ \E c \in Punctuation : variant' = Append(variant, c)
    /\ UNCHANGED <<stored, normalized>>
    /\ UNCHANGED <<req_vars, conc_vars, lang_vars>>

\* a whitespace run inside the answer typed one character longer
EditInnerWhitespace ==
    /\ Len(variant) < MaxVariantLen
    /\ \E i \in 2..(Len(variant) - 1), c \in Whitespace :
          /\ variant[i] \in Whitespace
          /\ variant' = Insert(variant, i, c)
    /\ UNCHANGED <<stored, normalized>>
    /\ UNCHANGED <<req_vars, conc_vars, lang_vars>>

\* a punctuation character typed once more
EditRepeatPunctuation ==
    /\ Len(variant) < MaxVariantLen
    /\ \E i \in 1..Len(variant) :
          /\ variant[i] \in Punctuation
          /\ variant' = Insert(variant, i, variant[i])
    /\ UNCHANGED <<stored, normalized>>
    /\ UNCHANGED <<req_vars, conc_vars, lang_vars>>

\* normalize_answer applied to the variant
Normalize ==
    /\ normalized' = normalize_answer(variant)
    /\ UNCHANGED <<stored, variant>>
    /\ UNCHANGED <<req_vars, conc_vars, lang_vars>>

\* normalize_answer applied to a string it returned
Renormalize ==
    /\ normalized # Null
    /\ normalized' = normalize_answer(normalized)
    /\ UNCHANGED <<stored, variant>>
    /\ UNCHANGED <<req_vars, conc_vars, lang_vars>>

NormNext ==
    \/ EditCase
    \/ EditOuterWhitespace
    \/ EditTrailingPunctuation
    \/ EditInnerWhitespace
    \/ EditRepeatPunctuation
    \/ Normalize
    \/ Renormalize

NormSpec == NormInit /\ [][NormNext]_vars

(***************************************************************************)
(* The statistics on their own: the two services are asked about a table   *)
(* of attempts recorded over a year.  The instants are hours since 00:00   *)
(* of day 0; the requests arrive in the last hour of day 365 or in the     *)
(* first hour of day 366.                                                  *)
(***************************************************************************)
StatInstants == {8783, 8784}

\* no attempt was made at a slot
NoAttempt == <<"-">>

\* The attempts that may have been made: instant, user, exercise and the
\* answers that may have been submitted.  The first four are on the day
\* on which the windows of 1y, 3m, 30d and 7d start for a request of day
\* 365; the others are on days 362 to 365.
Slots ==
    << [t |-> 0,    u |-> 1, e |-> 1, answers |-> {<<"a">>}],
       [t |-> 6600, u |-> 1, e |-> 1, answers |-> {<<"a">>}],
       [t |-> 8040, u |-> 1, e |-> 1, answers |-> {<<"a">>}],
       [t |-> 8592, u |-> 1, e |-> 1, answers |-> {<<"a">>}],
       [t |-> 8688, u |-> 1, e |-> 2, answers |-> {<<"b">>}],
       [t |-> 8712, u |-> 1, e |-> 6, answers |-> {<<"a">>, <<>>}],
       [t |-> 8736, u |-> 1, e |-> 7, answers |-> {<<"b">>, <<>>}],
       [t |-> 8760, u |-> 2, e |-> 1, answers |-> {<<"a">>}],
       [t |-> 8760, u |-> 1, e |-> 1, answers |-> {<<"a">>, <<"b">>, <<>>}] >>

\* the row check_and_save_submission records for an answer
Attempt(id, u, exercise_id, user_answer, time_spent_seconds, t) ==
    [id |-> id, user_id |-> u, exercise_id |-> exercise_id,
     user_answer |-> history_answer(user_answer),
     status |-> answer_status(
                   user_answer,
                   (CHOOSE e \in Exercises : e.id = exercise_id).correct_answer),
     time_spent_seconds |-> time_spent_seconds,
     completed_at |-> t]

\* the table after the attempts chosen for the slots k.. are recorded
RECURSIVE Recorded(_, _, _)
Recorded(k, choice, table) ==
    IF k > Len(Slots) THEN table
    ELSE IF choice[k] = NoAttempt THEN Recorded(k + 1, choice, table)
    ELSE Recorded(k + 1, choice,
                  Append(table,
                         Attempt(Len(table) + 1, Slots[k].u, Slots[k].e,
                                 choice[k], 1800, Slots[k].t)))

\* one attempt more than the statistics fetch
BigRows == HistoryLimit + 1

\* a learner with BigRows correct attempts: one on day 0, then two an hour
BigTable ==
    [k \in 1..BigRows |->
        Attempt(k, 1, 1, <<"a">>, 7, IF k = 1 THEN 0 ELSE 1 + k \div 2)]

StatInit ==
    /\ now \in StatInstants
    /\ \/ \E choice \in [1..Len(Slots) -> {<<"a">>, <<"b">>, <<>>, NoAttempt}] :
            /\ \A k \in 1..Len(Slots) :
                  choice[k] \in Slots[k].answers \cup {NoAttempt}
            /\ history = Recorded(1, choice, <<>>)
       \/ history = BigTable
    /\ resp = NoResp
    /\ stored = <<>>
    /\ variant = <<>>
    /\ normalized = Null
    /\ calls = <<>>
    /\ users = <<>>
    /\ user_level_languages = {}
    /\ user_level_languages_id_seq = 0

StatNext ==
    \/ Return
    \/ \E u \in UserIds, l \in LanguageInputs, p \in PeriodInputs :
          GetOverview(u, l, p)
    \/ \E u \in UserIds, l \in LanguageInputs, p \in PeriodInputs :
          GetPerformance(u, l, p)

StatSpec == StatInit /\ [][StatNext]_vars

(***************************************************************************)
(* Submissions served side by side.  Every request runs                    *)
(* services.exercise.check_and_save_submission in a database session of    *)
(* its own (api.dependencies.get_db); the calls give way to each other at  *)
(* each await: the lookup of the exercise, the commit of the history row.  *)
(***************************************************************************)
CallIds == {1, 2}

\* <<exercise_id, user_answer, time_spent_seconds>> of the submissions
\* that run side by side
ConcRequests ==
    {r \in SubmitRequests : r[2] \in {<<>>, <<"A", "!">>, <<"b">>}}

\* a request that has arrived and is not yet validated
Call(u, exercise_id, user_answer, time_spent_seconds) ==
    [pc |-> "request", kind |-> "none", user_id |-> u,
     exercise_id |-> exercise_id, user_answer |-> user_answer,
     time_spent_seconds |-> time_spent_seconds,
     exercise |-> {}, status |-> None, is_correct |-> FALSE,
     history_id |-> 0]

ConcInit ==
    /\ now = 0
    /\ history = <<>>
    /\ resp = NoResp
    /\ stored = <<>>
    /\ variant = <<>>
    /\ normalized = Null
    /\ calls \in [CallIds ->
                    {Call(u, r[1], r[2], r[3]) :
                        u \in UserIds, r \in ConcRequests}]
    /\ users = <<>>
    /\ user_level_languages = {}
    /\ user_level_languages_id_seq = 0

\* The database clock advances while the calls are being served.
ConcTick ==
    /\ \E c \in CallIds : calls[c].pc # "done"
    /\ \E t \in ClockInstants : t > now /\ now' = t
    /\ UNCHANGED <<history, resp>>
    /\ UNCHANGED <<norm_vars, conc_vars, lang_vars>>

\* POST /exercises/{exercise_id}/submit: the body is validated against
\* ExerciseUserAnswer before the service is called
SubmitValidate(c) ==
    /\ calls[c].pc = "request"
    /\ IF ExerciseUserAnswer_valid(calls[c].time_spent_seconds)
       THEN calls' = [calls EXCEPT ![c].pc = "lookup"]
       ELSE calls' = [calls EXCEPT ![c].pc = "done",
                                   ![c].kind = "RequestValidationError"]
    /\ UNCHANGED req_vars
    /\ UNCHANGED <<norm_vars, lang_vars>>

\* check_and_save_submission: exercise = await get_exercise_by_id(...),
\* 404 when there is none
SubmitLookup(c) ==
    LET found == get_exercise_by_id(calls[c].exercise_id)
    IN
    /\ calls[c].pc = "lookup"
    /\ IF found = {}
       THEN calls' = [calls EXCEPT ![c].pc = "done", ![c].kind = "NotFound"]
       ELSE calls' = [calls EXCEPT ![c].pc = "insert", ![c].exercise = found]
    /\ UNCHANGED req_vars
    /\ UNCHANGED <<norm_vars, lang_vars>>

\* check_and_save_submission: the status, the ExerciseHistoryCreate and
\* await create_user_history(db, new_history), which adds the row and
\* commits
SubmitInsert(c) ==
    LET call == calls[c]
        exercise == CHOOSE e \in call.exercise : TRUE
        status == answer_status(call.user_answer, exercise.correct_answer)
        new_history ==
            [user_id |-> call.user_id, exercise_id |-> call.exercise_id,
             user_answer |-> history_answer(call.user_answer),
             status |-> status,
             time_spent_seconds |-> call.time_spent_seconds]
    IN
    /\ call.pc = "insert"
    /\ IF ~ExerciseHistoryCreate_valid(new_history)
       THEN /\ calls' = [calls EXCEPT ![c].pc = "done",
                                      ![c].kind = "ValidationError"]
            /\ UNCHANGED history
       ELSE IF ~check_constraints(Last(create_user_history(new_history)))
       THEN /\ calls' = [calls EXCEPT ![c].pc = "done",
                                      ![c].kind = "IntegrityError"]
            /\ UNCHANGED history
       ELSE /\ history' = create_user_history(new_history)
            /\ calls' = [calls EXCEPT
                            ![c].pc = "respond",
                            ![c].status = status,
                            ![c].is_correct = (status = CORRECT),
                            ![c].history_id =
                                Last(create_user_history(new_history)).id]
    /\ UNCHANGED <<now, resp>>
    /\ UNCHANGED <<norm_vars, lang_vars>>

\* check_and_save_submission: return ExerciseCorrectAnswer(...)
SubmitRespond(c) ==
    LET exercise == CHOOSE e \in calls[c].exercise : TRUE
    IN
    /\ calls[c].pc = "respond"
    /\ IF ExerciseCorrectAnswer_valid(exercise)
       THEN calls' = [calls EXCEPT ![c].pc = "done", ![c].kind = "ok"]
       ELSE calls' = [calls EXCEPT ![c].pc = "done",
                                   ![c].kind = "ValidationError"]
    /\ UNCHANGED req_vars
    /\ UNCHANGED <<norm_vars, lang_vars>>

ConcNext ==
    \/ ConcTick
    \/ \E c \in CallIds : SubmitValidate(c)
    \/ \E c \in CallIds : SubmitLookup(c)
    \/ \E c \in CallIds : SubmitInsert(c)
    \/ \E c \in CallIds : SubmitRespond(c)

ConcSpec == ConcInit /\ [][ConcNext]_vars

(***************************************************************************)
(* Language management: registration (services.auth), the learning list    *)
(* of a user (services.user_language) and users.active_learning_language_id *)
(* (crud.user).  The operations run one after the other.                   *)
(***************************************************************************)
LanguageEnum == {"uk", "en", "de"}

\* UserLanguageLevelUpdate.level: absent, or a level
LevelInputs == {None, "B1"}

\* rows user_level_languages may ever be given an id for
MaxLanguageRows == 3

LangInit ==
    /\ users = <<>>
    /\ user_level_languages = {}
    /\ user_level_languages_id_seq = 0
    /\ now = 0
    /\ history = <<>>
    /\ resp = NoResp
    /\ stored = <<>>
    /\ variant = <<>>
    /\ normalized = Null
    /\ calls = <<>>

LangResp(op, kind, user_id, language) ==
    [op |-> op, kind |-> kind, user_id |-> user_id, language |-> language]

\* crud.user.create_user: the users table after the commit
create_user ==
    Append(users,
           [id |-> Len(users) + 1, active_learning_language_id |-> Nothing])

\* POST /auth/register: services.auth.register_user_simple; the email and
\* the username of the request are new
RegisterSimple ==
    /\ Len(users) < Cardinality(UserIds)
    /\ users' = create_user
    /\ resp' = LangResp("register", "ok", Len(users) + 1, None)
    /\ UNCHANGED <<user_level_languages, user_level_languages_id_seq>>
    /\ UNCHANGED <<now, history>>
    /\ UNCHANGED <<norm_vars, conc_vars>>

\* POST /auth/register/complete: services.auth.register_user_with_language.
\* crud.user.create_user_with_language reads user.id of the request data
\* (email, name, username, native_language, password,
\* active_learning_language, active_language_level), which has no id: the
\* AttributeError leaves the session uncommitted and nothing is stored.
RegisterWithLanguage(language, level) ==
    /\ Len(users) < Cardinality(UserIds)
    /\ resp' = LangResp("register_complete", "AttributeError", 0, language)
    /\ UNCHANGED lang_vars
    /\ UNCHANGED <<now, history>>
    /\ UNCHANGED <<norm_vars, conc_vars>>

\* crud.user_language.get_all_user_languages
get_all_user_languages(user_id) ==
    {row \in user_level_languages : row.user_id = user_id}

\* the entry of the list for a language (next(lang for lang in ... if
\* lang.language == language)), as a set: empty for None
language_entry(user_languages, language) ==
    {row \in user_languages : row.language = language}

\* crud.user_language.create_user_language: the new row
new_user_language(user_id, language, level) ==
    [id |-> user_level_languages_id_seq + 1, user_id |-> user_id,
     language |-> language, level |-> level]

\* crud.user_language.update_user_language: the table after the commit
update_user_language(user_id, language, level) ==
    {IF row.user_id = user_id /\ row.language = language
        THEN [row EXCEPT !.level = level]
        ELSE row : row \in user_level_languages}

\* crud.user.update_active_language: the users table after the commit
update_active_language(user_id, language_id) ==
    [users EXCEPT ![user_id].active_learning_language_id = Some(language_id)]

\* update_or_create_user_language: if data.make_active or
\* user.active_learning_language_id is None: update_active_language(...)
activate(user_id, make_active, language_id) ==
    IF make_active \/ users[user_id].active_learning_language_id = Nothing
    THEN update_active_language(user_id, language_id)
    ELSE users

\* POST /users/me/languages/{language}:
\* services.user_language.update_or_create_user_language
UpdateOrCreateLanguage(user_id, language, data_level, make_active) ==
    LET level == IF data_level # None THEN data_level ELSE "A1"
        user_level_languages_of == get_all_user_languages(user_id)
        existing == language_entry(user_level_languages_of, language)
    IN
    /\ user_id \in DOMAIN users
    /\ IF existing = {}
       THEN /\ user_level_languages_id_seq < MaxLanguageRows
            /\ user_level_languages' =
                  user_level_languages
                      \cup {new_user_language(user_id, language, level)}
            /\ user_level_languages_id_seq' = user_level_languages_id_seq + 1
            /\ users' = activate(user_id, make_active,
                                 new_user_language(user_id, language, level).id)
       ELSE /\ user_level_languages' =
                  IF data_level # None
                  THEN update_user_language(user_id, language, data_level)
                  ELSE user_level_languages
            /\ UNCHANGED user_level_languages_id_seq
            /\ users' = activate(user_id, make_active,
                                 (CHOOSE row \in existing : TRUE).id)
    /\ resp' = LangResp("update_or_create_language", "ok", user_id, language)
    /\ UNCHANGED <<now, history>>
    /\ UNCHANGED <<norm_vars, conc_vars>>

\* crud.user_language.delete_learning_language: the table without the
\* user's entry for the language
delete_learning_language(user_id, language) ==
    {row \in user_level_languages :
        ~(row.user_id = user_id /\ row.language = language)}

\* Variant: the active language may be removed.
delete_outcome_any(user_id, language) ==
    LET user_languages == get_all_user_languages(user_id)
        language_to_delete == language_entry(user_languages, language)
    IN  IF language_to_delete = {} THEN "NotFound"
        ELSE IF Cardinality(user_languages) = 1 THEN "BadRequest"
        ELSE "ok"

\* services.user_language.delete_user_learning_language: the exception it
\* raises, or ok
delete_outcome(user_id, language) ==
    LET user_languages == get_all_user_languages(user_id)
        language_to_delete == language_entry(user_languages, language)
    IN  IF language_to_delete = {} THEN "NotFound"
        ELSE IF Cardinality(user_languages) = 1 THEN "BadRequest"
        ELSE IF Some((CHOOSE row \in language_to_delete : TRUE).id)
                    = users[user_id].active_learning_language_id
             THEN "BadRequest"
        ELSE "ok"

\* DELETE /users/me/languages/{language}:
\* services.user_language.delete_user_learning_language
DeleteLanguage(user_id, language) ==
    /\ user_id \in DOMAIN users
    /\ resp' = LangResp("delete_language", delete_outcome(user_id, language),
                        user_id, language)
    /\ IF delete_outcome(user_id, language) = "ok"
       THEN user_level_languages' = delete_learning_language(user_id, language)
       ELSE UNCHANGED user_level_languages
    /\ UNCHANGED <<users, user_level_languages_id_seq>>
    /\ UNCHANGED <<now, history>>
    /\ UNCHANGED <<norm_vars, conc_vars>>

LangNext ==
    \/ RegisterSimple
    \/ \E l \in LanguageEnum, v \in LevelInputs : RegisterWithLanguage(l, v)
    \/ \E u \in UserIds, l \in LanguageEnum, v \in LevelInputs,
          a \in BOOLEAN : UpdateOrCreateLanguage(u, l, v, a)
    \/ \E u \in UserIds, l \in LanguageEnum : DeleteLanguage(u, l)

LangSpec == LangInit /\ [][LangNext]_vars

(***************************************************************************)
(* Properties.                                                             *)
(***************************************************************************)
native(u) == Users[u].native_language

active(u) == Users[u].active_learning_language.language

\* e is active and in the language pair of user u
Matches(u, e) == e.is_active /\ language_match(e, native(u), active(u))

\* a request by u for e's own topic and level, without exclude_id, can
\* return e
Selectable(u, e) ==
    e \in get_exercise(u, e.topic, e.difficult_level, native(u), active(u), 0)

Attempts(u, e) ==
    {r \in HistoryRows : r.user_id = u /\ r.exercise_id = e.id}

\* the exclusion windows as the specification states them, in hours
Window(status) ==
    CASE status = CORRECT -> 336
      [] status = SKIP -> 72
      [] status = INCORRECT -> 0

\* C1 and C2 speak of the table and the clock, so they are stated between
\* requests: every table and instant the program reaches is also reached
\* with no request in progress (Return changes neither).

\* the request of the response asks for e's topic and level
AsksFor(e) ==
    /\ resp.op = "select"
    /\ ~topic_is_blank(resp.topic)
    /\ normalize_topic(resp.topic) = e.topic
    /\ default_difficulty(Users[resp.user_id], resp.difficult_level)
          = e.difficult_level

ExerciseOf(id) == CHOOSE e \in Exercises : e.id = id

\* C3 as stated: a submit_answer call appends exactly one row, carrying
\* the caller's user id, the exercise id, the status, the time spent and
\* the raw answer (null for skip), if and only if it returns a graded
\* result; a call that ends in an error leaves the history unchanged.
C3_Atomic ==
    [][ resp'.op = "submit" =>
          /\ (resp'.kind = "ok") <=> (Len(history') = Len(history) + 1)
          /\ (resp'.kind # "ok") => (history' = history)
          /\ (resp'.kind = "ok") =>
                /\ SubSeq(history', 1, Len(history)) = history
                /\ Last(history').user_id = resp'.user_id
                /\ Last(history').exercise_id = resp'.exercise_id
                /\ Last(history').status = resp'.status
                /\ Last(history').time_spent_seconds = resp'.time_spent_seconds
                /\ Last(history').user_answer =
                      IF resp'.status = SKIP THEN Null ELSE resp'.user_answer
      ]_vars

OnlyChars(s, chars) == \A i \in 1..Len(s) : s[i] \in chars

C5_StatusAnswer ==
    \A r \in HistoryRows :
        /\ (r.status = SKIP) <=> (r.user_answer \in {Null, <<>>})
        /\ (r.status \in {CORRECT, INCORRECT}) <=> (r.user_answer \notin {Null, <<>>})

\* A whitespace-only answer was recorded as a skip next to an answered row.
C5_Witness ==
    /\ Len(history) = 2
    /\ history[1].status = INCORRECT
    /\ resp.op = "submit" /\ resp.kind = "ok" /\ resp.user_answer = <<" ">>
    /\ history[2].status = SKIP /\ history[2].user_answer = Null

\* the selection request of the response, evaluated without exclude_id
OtherwiseEligible ==
    get_exercise(resp.user_id, normalize_topic(resp.topic),
                 default_difficulty(Users[resp.user_id], resp.difficult_level),
                 native(resp.user_id), active(resp.user_id), 0)

\* C6: a selection with exclude_id = X, X the id of an existing exercise,
\* never returns X, and fails with NotFound when X is the only exercise
\* that would otherwise be eligible.
C6_ExcludeId ==
    (resp.op = "select" /\ resp.exclude_id \in ExerciseIds) =>
        /\ resp.kind = "ok" => resp.exercise_id # resp.exclude_id
        /\ ( /\ ~topic_is_blank(resp.topic)
             /\ OtherwiseEligible = {ExerciseOf(resp.exclude_id)} )
              => resp.kind = "NotFound"

\* Exercise 6 is the only eligible one of its topic and the request
\* excludes it.
C6_Witness ==
    /\ resp.op = "select" /\ resp.exclude_id = 6
    /\ ~topic_is_blank(resp.topic)
    /\ OtherwiseEligible = {ExerciseOf(6)}
    /\ resp.kind = "NotFound"

\* C7: a returned exercise is active, has the normalized requested topic
\* and the requested difficulty, or the user's active-language level when
\* no difficulty was requested.
C7_TopicLevelActive ==
    (resp.op = "select" /\ resp.kind = "ok") =>
        \E e \in Exercises :
            /\ e.id = resp.exercise_id
            /\ e.is_active
            /\ e.topic = normalize_topic(resp.topic)
            /\ e.difficult_level =
                  IF resp.difficult_level = None
                  THEN Users[resp.user_id].active_learning_language.level
                  ELSE resp.difficult_level

\* A request without a difficulty by the A2 user returned an A2 exercise.
C7_Witness ==
    /\ resp.op = "select" /\ resp.kind = "ok"
    /\ resp.user_id = 2 /\ resp.difficult_level = None
    /\ ExerciseOf(resp.exercise_id).difficult_level = "A2"

\* the language-pair rule of the specification
PairRule(u, e) ==
    \/ /\ e.type = SENTENCE_TRANSLATION
       /\ <<e.question_language, e.answer_language>>
             \in {<<native(u), active(u)>>, <<active(u), native(u)>>}
    \/ /\ e.type \in {MULTIPLE_CHOICE, FILL_BLANK}
       /\ e.question_language = active(u)
       /\ e.question_translation_language = native(u)

\* C8: a returned exercise obeys the language-pair rule of its type.
C8_LanguagePair ==
    (resp.op = "select" /\ resp.kind = "ok") =>
        PairRule(resp.user_id, ExerciseOf(resp.exercise_id))

\* A multiple-choice exercise whose question is in the learning language
\* was returned.
C8_Witness ==
    /\ resp.op = "select" /\ resp.kind = "ok"
    /\ ExerciseOf(resp.exercise_id).type = MULTIPLE_CHOICE
    /\ ExerciseOf(resp.exercise_id).question_language = active(resp.user_id)

\* the candidate set of the selection request of the response
Candidates ==
    { e \in Exercises :
        /\ e.is_active
        /\ e.topic = normalize_topic(resp.topic)
        /\ e.difficult_level =
              default_difficulty(Users[resp.user_id], resp.difficult_level)
        /\ PairRule(resp.user_id, e)
        /\ ~\E r \in Attempts(resp.user_id, e) :
               /\ r.status \in {CORRECT, SKIP}
               /\ now - r.completed_at <= Window(r.status)
        /\ e.id # resp.exclude_id }

C10_TimeSpent ==
    [][ resp'.op = "submit" =>
          /\ resp'.time_spent_seconds >= 0
                => resp'.kind # "RequestValidationError"
          /\ resp'.time_spent_seconds < 0
                => (resp'.kind = "RequestValidationError" /\ history' = history)
      ]_vars

C12_BlankTopic ==
    (resp.op = "select" /\ topic_is_blank(resp.topic)) =>
        (resp.kind = "ValidationError" /\ resp.exercise_id = 0)

\* C13 as stated: normalizing is idempotent, so a string that
\* normalize_answer returned is returned unchanged when normalized again.
C13_Idempotent ==
    normalized # Null => normalize_answer(normalized) = normalized

\* C14 as stated: when the stored answer itself is graded correct, every
\* variant of it that differs only in letter case, outer whitespace,
\* trailing punctuation (with or without whitespace before it), the length
\* of inner whitespace runs or the repetition of a punctuation character
\* is graded correct, the two normalizing to the same string.
C14_VariantsCorrect ==
    answer_status(stored, stored) = CORRECT =>
        /\ answer_status(variant, stored) = CORRECT
        /\ normalize_answer(variant) = normalize_answer(stored)

(***************************************************************************)
(* The history is an append-only log.                                      *)
(***************************************************************************)
\* C15: no step removes or changes a row of the history: every row that
\* existed before a step is at its place with the same field values after
\* it; selection, the topic list, the overview and the performance
\* statistics leave the table as it was, and a submission adds at most
\* one row, at the end.
C15_AppendOnly ==
    [][ /\ Len(history') >= Len(history)
        /\ SubSeq(history', 1, Len(history)) = history
        /\ Len(history') <= Len(history) + 1
        /\ resp'.op \in {"select", "topics", "overview", "performance"}
              => history' = history
        /\ history' # history => resp'.op = "submit"
      ]_vars

\* A second submission for an exercise the user had already attempted was
\* recorded, and the row of the first attempt is still the first row.
C15_Witness ==
    /\ resp.op = "submit" /\ resp.kind = "ok"
    /\ Len(history) = 2
    /\ history[1].user_id = history[2].user_id
    /\ history[1].exercise_id = history[2].exercise_id
    /\ history[1].status # history[2].status

(***************************************************************************)
(* Statistics.                                                             *)
(***************************************************************************)
\* the rows the pending statistics request was computed from
Fetched ==
    statistics_history(resp.user_id, resp.language,
                       parse_date_range(resp.period))

\* the dates on which rows were completed
DatesOf(rows) == {date(rows[i].completed_at) : i \in 1..Len(rows)}

\* row i is an attempt of the user on the language the request names
Asked(i) ==
    /\ history[i].user_id = resp.user_id
    /\ \/ resp.language = None
       \/ exercise_of(history[i]).question_language = resp.language
       \/ exercise_of(history[i]).answer_language = resp.language

\* the attempts of the request's user and language inside the date range
\* the service derives from the period
InDateRange ==
    {i \in 1..Len(history) :
        /\ Asked(i)
        /\ parse_date_range(resp.period)[1] # Nothing =>
              /\ history[i].completed_at >= parse_date_range(resp.period)[1][1]
              /\ history[i].completed_at <= parse_date_range(resp.period)[2][1]}

\* C16 as stated: for a history in range of any size the overview reports
\* total_exercises = the number of attempts in range, skips included,
\* total_answered = the number of those that are not skips, and accuracy
\* = correct / total_answered * 100 rounded to one decimal, 0 when nothing
\* was answered; an empty history gives zero counters, streak 0 and
\* is_today_completed = false.
C16_Overview ==
    resp.op = "overview" =>
        LET total == Cardinality(InDateRange)
            answered ==
                Cardinality({i \in InDateRange : history[i].status # SKIP})
            correct ==
                Cardinality({i \in InDateRange : history[i].status = CORRECT})
        IN  /\ resp.kind = "ok"
            /\ resp.result.total_exercises = total
            /\ resp.result.total_answered = answered
            /\ resp.result.accuracy =
                  IF answered = 0 THEN 0
                  ELSE round_fields([num |-> 100 * correct, den |-> answered])
            /\ total = 0 =>
                  /\ resp.result.current_streak_days = 0
                  /\ resp.result.is_today_completed = FALSE
                  /\ resp.result.total_study_hours = 0

\* the length of the run of consecutive dates in days that ends at last
MaximalRun(days, last) ==
    CHOOSE n \in 0..Cardinality(days) :
        /\ \A k \in 0..(n - 1) : (last - k) \in days
        /\ (last - n) \notin days

\* C17: when the history the overview is computed from has an attempt
\* completed today, current_streak_days is the length of the maximal run
\* of consecutive dates with an attempt that ends today, dates before the
\* first gap not counting, and is_today_completed is true.
C17_StreakToday ==
    LET days == DatesOf(Fetched)
    IN  (resp.op = "overview" /\ date(now) \in days) =>
            /\ resp.result.current_streak_days = MaximalRun(days, date(now))
            /\ resp.result.is_today_completed = TRUE

\* Attempts today and on the two days before, none on the third day
\* before, and older attempts behind the gap: the streak is 3.
C17_Witness ==
    LET days == DatesOf(Fetched)
    IN  /\ resp.op = "overview"
        /\ resp.result.current_streak_days = 3
        /\ resp.result.is_today_completed = TRUE
        /\ {date(now) - k : k \in 0..2} \subseteq days
        /\ (date(now) - 3) \notin days
        /\ Cardinality(days) > 3

\* C18: when the history the overview is computed from is not empty and
\* has no attempt completed today, is_today_completed is false and
\* current_streak_days is the length of the maximal run of consecutive
\* dates that ends yesterday, 0 when the most recent date is older.
C18_StreakGrace ==
    LET days == DatesOf(Fetched)
    IN  (resp.op = "overview" /\ days # {} /\ date(now) \notin days) =>
            /\ resp.result.is_today_completed = FALSE
            /\ resp.result.current_streak_days =
                  MaximalRun(days, date(now) - 1)
            /\ (date(now) - 1) \notin days
                  => resp.result.current_streak_days = 0

\* Attempts yesterday and three days ago, none today or two days ago: the
\* streak is 1.
C18_Witness ==
    LET days == DatesOf(Fetched)
    IN  /\ resp.op = "overview"
        /\ resp.result.is_today_completed = FALSE
        /\ resp.result.current_streak_days = 1
        /\ date(now) \notin days
        /\ (date(now) - 1) \in days
        /\ (date(now) - 2) \notin days
        /\ (date(now) - 3) \in days

\* C19 as stated: with a period of N = 7, 30, 90 or 365 days the overview
\* counts an attempt of the user exactly when it was completed at most
\* N * 24 hours before the request, and with period `all` it counts every
\* attempt of the user.
C19_Window ==
    resp.op = "overview" =>
        resp.result.total_exercises =
            Cardinality({i \in 1..Len(history) :
                /\ Asked(i)
                /\ resp.period # "all" =>
                      now - history[i].completed_at
                          <= 24 * period_days[resp.period]})

\* the non-skip attempts of the request on exercises of a level, and the
\* correct ones among them
AnsweredAt(level) ==
    {i \in InDateRange :
        /\ exercise_of(history[i]).difficult_level = level
        /\ history[i].status # SKIP}

CorrectAt(level) == {i \in AnsweredAt(level) : history[i].status = CORRECT}

\* C20 as stated: get_performance reports for every level A1..C2
\* total_answered = the number of non-skip attempts on exercises of the
\* level and accuracy by the overview formula; mastered holds iff accuracy
\* >= 80 and total_answered >= 100, in_progress iff total_answered > 10 and
\* not mastered, and the two are never both true.
C20_ByDifficulty ==
    resp.op = "performance" =>
        /\ resp.kind = "ok"
        /\ \A k \in 1..Len(LanguageLevelEnum) :
              LET stats == resp.result.by_difficulty[k]
                  answered == Cardinality(AnsweredAt(stats.level))
                  correct == Cardinality(CorrectAt(stats.level))
              IN  /\ stats.level = LanguageLevelEnum[k]
                  /\ stats.total_answered = answered
                  /\ stats.accuracy =
                        IF answered = 0 THEN 0
                        ELSE round_fields([num |-> 100 * correct,
                                           den |-> answered])
                  /\ stats.mastered =
                        (100 * correct >= 80 * answered /\ answered >= 100)
                  /\ stats.in_progress = (answered > 10 /\ ~stats.mastered)
                  /\ ~(stats.mastered /\ stats.in_progress)

\* the topics of the attempts in range, and the counts of a topic
TopicsInRange == {exercise_of(history[i]).topic : i \in InDateRange}

TopicAnswered(topic) ==
    Cardinality({i \in InDateRange :
                    /\ exercise_of(history[i]).topic = topic
                    /\ history[i].status # SKIP})

TopicCorrect(topic) ==
    Cardinality({i \in InDateRange :
                    /\ exercise_of(history[i]).topic = topic
                    /\ history[i].status = CORRECT})

\* accuracy of a topic with answered attempts is at most / at least that
\* of another, by cross-multiplication
AccuracyLeq(s, t) ==
    TopicCorrect(s) * TopicAnswered(t) <= TopicCorrect(t) * TopicAnswered(s)

\* C21 as stated: get_performance returns top_topics with at most 5
\* entries in non-increasing order of accuracy, each with total_answered =
\* the number of non-skip attempts on its topic in range, and every topic
\* seen in range that is not listed has an accuracy no higher than the
\* lowest accuracy listed.
C21_TopTopics ==
    resp.op = "performance" =>
        /\ resp.kind = "ok"
        /\ LET top == resp.result.top_topics
               listed == {top[k].name : k \in 1..Len(top)}
           IN  /\ Len(top) <= 5
               /\ listed \subseteq TopicsInRange
               /\ \A k \in 1..Len(top) :
                     top[k].total_answered = TopicAnswered(top[k].name)
               /\ \A k \in 1..(Len(top) - 1) :
                     AccuracyLeq(top[k + 1].name, top[k].name)
               /\ \A t \in TopicsInRange \ listed :
                     /\ top # <<>>
                     /\ TopicAnswered(t) > 0
                           => AccuracyLeq(t, top[Len(top)].name)

\* the topics in range that qualify as weak
WeakTopics ==
    {t \in TopicsInRange :
        /\ TopicAnswered(t) >= 20
        /\ 100 * TopicCorrect(t) <= 60 * TopicAnswered(t)}

\* C22 as stated: get_performance returns weak_topics holding exactly the
\* topics with total_answered >= 20 and accuracy <= 60, up to 5 of them,
\* lowest accuracy first; no other topic appears in it.
C22_WeakTopics ==
    resp.op = "performance" =>
        /\ resp.kind = "ok"
        /\ LET weak == resp.result.weak_topics
               listed == {weak[k].name : k \in 1..Len(weak)}
           IN  /\ listed \subseteq WeakTopics
               /\ Len(weak) = Cardinality(listed)
               /\ Len(weak) = Min(5, Cardinality(WeakTopics))
               /\ \A k \in 1..(Len(weak) - 1) :
                     AccuracyLeq(weak[k].name, weak[k + 1].name)
               /\ \A t \in WeakTopics \ listed :
                     AccuracyLeq(weak[Len(weak)].name, t)

\* C27 as stated, in the case it singles out: when a topic in range has
\* only skipped attempts, get_performance still completes with a result
\* that carries top_topics and weak_topics.
C27_SkipOnlyTopic ==
    ( /\ resp.op = "performance"
      /\ \E t \in TopicsInRange : TopicAnswered(t) = 0 ) =>
        /\ resp.kind = "ok"
        /\ {"top_topics", "weak_topics"} \subseteq DOMAIN resp.result

\* C28 as stated: for every history, the empty one included,
\* get_performance returns a PerformanceResponse whose by_difficulty has
\* exactly the keys A1, A2, B1, B2, C1, C2; building the response does not
\* fail for a field the service does not supply.  (Histories with a topic
\* of skipped attempts only are C27's case and are left aside here.)
C28_PerformanceResponse ==
    ( /\ resp.op = "performance"
      /\ \A t \in TopicsInRange : TopicAnswered(t) > 0 ) =>
        /\ resp.kind # "ValidationError"
        /\ resp.kind = "ok"
        /\ Len(resp.result.by_difficulty) = 6
        /\ {resp.result.by_difficulty[k].level : k \in 1..6}
              = {"A1", "A2", "B1", "B2", "C1", "C2"}

SelectableSet(u) == {e \in Exercises : Selectable(u, e)}

\* C26: exclusion is per user: a submission by one user changes for no
\* other user the set of exercises a selection can return, and after it
\* every exercise a user has not attempted can still be given to that
\* user, whatever the others have submitted.
C26_PerUser ==
    [][ resp'.op = "submit" =>
          /\ \A b \in UserIds \ {resp'.user_id} :
                SelectableSet(b)' = SelectableSet(b)
          /\ \A b \in UserIds, e \in Exercises :
                (Matches(b, e) /\ Attempts(b, e)' = {}) => Selectable(b, e)'
      ]_vars

\* User 2 is given exercise 1 while user 1's correct attempt on it, made at
\* this very instant, keeps it from user 1.
C26_Witness ==
    /\ resp.op = "select" /\ resp.kind = "ok"
    /\ resp.user_id = 2 /\ resp.exercise_id = 1
    /\ \E r \in Attempts(1, ExerciseOf(1)) :
          r.status = CORRECT /\ r.completed_at = now
    /\ ~Selectable(1, ExerciseOf(1))

(***************************************************************************)
(* The topic list.                                                         *)
(***************************************************************************)
\* C30 as stated: the topic of every exercise a selection of the user can
\* return, exclusion windows aside, is in the user's topic list; this
\* includes a topic whose only exercises are multiple_choice or fill_blank
\* with the question in the active language and its translation in the
\* native one.
C30_TopicsCoverSelection ==
    /\ (resp.op = "select" /\ resp.kind = "ok") =>
          ExerciseOf(resp.exercise_id).topic \in get_all_topics(Users[resp.user_id])
    /\ resp.op = "topics" =>
          \A e \in Exercises : Matches(resp.user_id, e) => e.topic \in resp.result

(***************************************************************************)
(* Reading one history record.                                             *)
(***************************************************************************)
\* C24: a history record read by id is returned only when it is the
\* caller's; for every other id the whole response is the NotFound that
\* the request alone determines, the same whether the id is another
\* user's record or no record at all.
C24_OwnRecordsOnly ==
    resp.op = "history" =>
        LET own == {h \in HistoryRows :
                        h.id = resp.history_id /\ h.user_id = resp.user_id}
        IN  /\ own # {} =>
                  /\ resp.kind = "ok"
                  /\ resp.result.id = resp.history_id
                  /\ \E h \in own :
                        /\ resp.result.user_answer = h.user_answer
                        /\ resp.result.status = h.status
                        /\ resp.result.exercise.id = h.exercise_id
            /\ own = {} =>
                  resp = [NoResp EXCEPT
                             !.op = "history", !.kind = "NotFound",
                             !.user_id = resp.user_id,
                             !.history_id = resp.history_id,
                             !.result = [detail_history_id |-> resp.history_id]]

\* A user asked for the id of a record that exists and is another user's,
\* and was answered NotFound.
C24_Witness ==
    /\ resp.op = "history" /\ resp.kind = "NotFound"
    /\ \E h \in HistoryRows :
          h.id = resp.history_id /\ h.user_id # resp.user_id

\* a call the specification admits: an exercise that exists and a time
\* spent that is not negative
AdmittedCall(c) ==
    /\ calls[c].exercise_id \in ExerciseIds
    /\ calls[c].time_spent_seconds >= 0

\* the call succeeded and the table holds the one row it wrote
OwnRow(c) ==
    /\ calls[c].kind = "ok"
    /\ Cardinality({i \in 1..Len(history) :
                        history[i].id = calls[c].history_id}) = 1
    /\ \E i \in 1..Len(history) :
          /\ history[i].id = calls[c].history_id
          /\ history[i].user_id = calls[c].user_id
          /\ history[i].exercise_id = calls[c].exercise_id
          /\ history[i].status = calls[c].status
          /\ history[i].time_spent_seconds = calls[c].time_spent_seconds

AllDone == \A c \in CallIds : calls[c].pc = "done"

\* C23: two submissions served side by side, by the same user for the same
\* exercise or by different users or for different exercises, both succeed
\* and leave exactly two new rows, one of each call, however their steps
\* interleave: nothing is merged and no write is lost.
C23_ConcurrentSubmissions ==
    (AllDone /\ \A c \in CallIds : AdmittedCall(c))
        => /\ Len(history) = Cardinality(CallIds)
           /\ \A c \in CallIds : OwnRow(c)
           /\ \A c, d \in CallIds :
                 c # d => calls[c].history_id # calls[d].history_id

\* the learning languages of a user
LearningList(u) == {row \in user_level_languages : row.user_id = u}

\* the entry users.active_learning_language_id of u refers to, as a set
ActiveEntry(u) ==
    {row \in user_level_languages :
        Some(row.id) = users[u].active_learning_language_id}

ActiveLanguageConsistent ==
    \A u \in DOMAIN users :
        /\ (users[u].active_learning_language_id = Nothing)
              <=> (LearningList(u) = {})
        /\ users[u].active_learning_language_id # Nothing
              => /\ ActiveEntry(u) # {}
                 /\ ActiveEntry(u) \subseteq LearningList(u)

\* language l is the active language of u, or the only one u has
ActiveOrLast(u, l) ==
    \E row \in LearningList(u) :
        /\ row.language = l
        /\ \/ row \in ActiveEntry(u)
           \/ LearningList(u) = {row}

DeleteRefused ==
    \A u \in DOMAIN users, l \in LanguageEnum :
        (/\ resp'.op = "delete_language"
         /\ resp'.user_id = u
         /\ resp'.language = l
         /\ ActiveOrLast(u, l))
            => /\ resp'.kind = "BadRequest"
               /\ UNCHANGED lang_vars

\* C29: after any sequence of registrations, additions or updates of a
\* language (with or without make_active) and deletions, the user's
\* active_learning_language_id is null exactly when the user has no
\* learning language, and otherwise refers to an existing entry of that
\* user; a deletion of the active language or of the last language is
\* refused and changes nothing.
C29_ActiveLanguage == []ActiveLanguageConsistent /\ [][DeleteRefused]_vars

\* two users with languages of their own, the second with two of them, and
\* the deletion of its active one has just been refused
C29_Witness ==
    /\ Len(users) = 2
    /\ LearningList(1) # {}
    /\ Cardinality(LearningList(2)) = 2
    /\ resp.op = "delete_language"
    /\ resp.kind = "BadRequest"
    /\ resp.user_id = 2
    /\ \E row \in ActiveEntry(2) : row.language = resp.language


============================================================================
